---------------------------- MODULE Spec2Model ----------------------------
(***************************************************************************)
(* The discovery flow of the NetResearch front end: the Index page         *)
(* (src/src/pages/Index.tsx, second component, lines 382-714) and the      *)
(* ReasoningConsole it mounts (src/src/components/ReasoningConsole.tsx).   *)
(*                                                                         *)
(* Every handler, promise continuation and timer callback is one atomic    *)
(* action (one JavaScript task on the single UI thread), followed by the   *)
(* React render and effect pass it causes (Reconcile).  Requests in flight *)
(* and timers are state: a request is answered, and a timer fires, in any  *)
(* later step.                                                             *)
(*                                                                         *)
(* Spec is the search flow of Index with the console it mounts; SpecAll    *)
(* adds the CV upload of the search screen.  SpecConsole is the console of *)
(* one run up to the delivery of its completion, with an upload ending     *)
(* meanwhile (SpecLive: the same under fairness); SpecExpand is the        *)
(* console of a run that has not completed, with every step list and the   *)
(* user's toggles.  SpecSubmit is the search screen (form, profile, CV     *)
(* upload) and a submission up to the answer of its start-run call;        *)
(* SpecRuns is a run from submission to New Search; SpecPast is the past   *)
(* run of the sidebar; SpecMock is the mock status service of api.ts;      *)
(* SpecPoller is the polling effect over uploads, runs and New Search.     *)
(*                                                                         *)
(* The graph view mounts GraphVisualization                                *)
(* (src/src/components/GraphVisualization.tsx): SpecPanel is the graph     *)
(* view of a past run with node clicks, the detail panel and its chat;     *)
(* SpecEmail is the same view with the email dialog of the panel.          *)
(***************************************************************************)
EXTENDS Integers, Sequences, FiniteSets, Bags, TLC

\* ------------------------------------------------------------- bounds
\* Run ids the backend hands out in one session.
MaxRuns == 2
\* Longest step list a status response carries.
MaxSteps == 2
\* Status fetches in flight at once.
MaxInFlight == 2
\* Grace timers (setTimeout of the completion delivery) pending at once.
MaxTimers == 2
\* Start-run requests in flight at once.
MaxStarts == 2
\* Timer ids of polling intervals in use at once.
MaxIntervals == 2
\* Past-run fetches in flight at once.
MaxPast == 1
\* CV ids the upload endpoint can return.
MaxCvIds == 1
\* Seconds of the clock of the mock status service.
MaxClock == 10
\* Nodes of the graph besides the user's anchor.
MaxPeople == 2
\* Messages the chat of the detail panel holds, answers awaited included.
MaxChat == 4
\* Send-email and generate-email requests in flight at once.
MaxSends == 2

\* ------------------------------------------------------------- values
\* null / undefined
Null == 0
Runs == 1..MaxRuns
\* A run stored on the server before this session (listed in the sidebar).
PastRun == MaxRuns + 1
Graphs == Runs \cup {PastRun}
CvIds == 1..MaxCvIds

StepStatus == {"pending", "in_progress", "done"}
RunStatus == {"running", "completed", "failed"}

\* A step list: the statuses of steps "1".."n" in the order the backend sends
\* them; the step at position i has step_id i.
StepLists == UNION {[1..n -> StepStatus] : n \in 0..MaxSteps}
StepIds == 1..MaxSteps

\* The query field: empty, whitespace only, or text.
Queries == {"", " ", "q"}
Trim(q) == IF q = " " THEN "" ELSE q
\* The query of the past run listed in the sidebar.
PastQuery == "p"
\* The name field: empty, whitespace only, or a name.
Names == {"", " ", "n"}

\* The values of the max-nodes select, as the strings of decimal digits the
\* state holds.
MaxNodesOptions == {<<"3">>, <<"5">>, <<"1", "0">>, <<"2", "0">>}
DigitValue ==
    "0" :> 0 @@ "1" :> 1 @@ "2" :> 2 @@ "3" :> 3 @@ "4" :> 4 @@
    "5" :> 5 @@ "6" :> 6 @@ "7" :> 7 @@ "8" :> 8 @@ "9" :> 9
\* parseInt of a string of decimal digits.
RECURSIVE ParseInt(_)
ParseInt(s) ==
    IF s = << >> THEN 0
    ELSE 10 * ParseInt(SubSeq(s, 1, Len(s) - 1)) + DigitValue[s[Len(s)]]

\* The titles of the notifications Index shows; "none" before the first.
Toasts == {"none", "CV Uploaded", "Upload Failed", "Error"}

\* What handleStartDiscovery holds across its await: the values of the render
\* it was created in.
Closures == [query : Queries \cup {PastQuery}, maxNodes : MaxNodesOptions,
             cvId : CvIds \cup {Null}]

\* A status response (AgentStatusResponse): graph stands for graph_data being
\* present; the graph of a run is identified by the run.
Responses == [status : RunStatus, steps : StepLists, graph : BOOLEAN]
\* The responses of a run with a single step, which is in progress or done,
\* while the run is running and when it has completed with its graph (poll
\* treats every other response as it treats a running one).
FlowStepLists == {<<"in_progress">>, <<"done">>}
FlowResponses ==
    {r \in [status : {"running", "completed"}, steps : FlowStepLists,
            graph : BOOLEAN] : r.graph = (r.status = "completed")}
\* The same with the responses of a failed run.
ConsoleResponses ==
    {r \in [status : RunStatus, steps : FlowStepLists, graph : BOOLEAN] :
        r.graph = (r.status = "completed")}
\* Every step list, of a run that has not completed.
RunningResponses ==
    [status : {"running", "failed"}, steps : StepLists, graph : {FALSE}]

\* api.ts 81: the id of the user's anchor node ("user"); the other nodes of
\* the graph follow it.
UserNode == 1
People == (UserNode + 1)..(UserNode + MaxPeople)
NodeIds == {UserNode} \cup People
\* The text of the chat field: empty, blank, or a question.
ChatInputs == {"", " ", "m"}
\* GraphVisualization.tsx 37: a chat message; node is the node whose name the
\* request of the message carries (GraphVisualization.tsx 111).
ChatMessages == [role : {"user", "bot"}, node : People]
\* GraphVisualization.tsx 32, api.ts 374: the steps of the email dialog and
\* the two intents of a draft.
EmailSteps == {"selection", "generating", "editing"}
Intents == {"reach_out", "colab"}
\* GraphVisualization.tsx 33: the draft text: empty, or the text generateEmail
\* returned for an intent and a node's name (api.ts 374-384), edited by the
\* user or not.
NoDraft == [node |-> Null, intent |-> "none", edited |-> FALSE]
Drafts == [node : People, intent : Intents, edited : BOOLEAN]
\* The camera move last asked of the 3D view: none, the overview, or towards
\* a node.
NoCamera == [to |-> "none", node |-> Null]
Overview == [to |-> "overview", node |-> Null]
Towards(n) == [to |-> "node", node |-> n]

\* A status fetch in flight: the runId its poll closure captured, and whether
\* the component instance that issued it is still mounted.
Insts == {"live", "dead"}
FetchRecs == [run : Runs, inst : Insts]
\* A pending grace timer: what it will deliver.
TimerRecs == [run : Runs, steps : StepLists, inst : Insts]
\* An armed polling interval: its timer id and the runId its closure captured.
IntervalIds == 1..MaxIntervals
IntervalRecs == [id : IntervalIds, run : Runs, inst : Insts]

VARIABLES
    \* Index state (useState)
    searchStarted, isSearching, isComplete, query, graphData, runId,
    reasoningSteps, cvFile, cvId, isUploadingCV, hasCvLoaded,
    userName, maxNodes,
    \* requests of Index in flight, and the backend's next run id
    pendingStarts, pendingPast, nextRun,
    \* more requests of Index in flight: the name saves of submissions (with
    \* the closure that awaits each), uploads, the profile request of the mount
    pendingNames, pendingUploads, pendingUser,
    \* the arguments of the last start-run call, and the last notification
    startArgs, toast,
    \* the mock status service: its clock (seconds), its run store and the
    \* last snapshot it returned
    now, mockRuns, snapshot,
    \* ReasoningConsole state (useState / useRef) of the mounted instance
    steps, expandedSteps, lastActiveStepId, isAutoExpanded, pollingInterval,
    \* timers and fetches of every console instance
    armed, inflight, timers,
    \* history: the last event (with the run and instance of the fetch or timer
    \* it handled, the run id a start-run call returned, or in place of the
    \* run the CV id an upload returned), whether the user toggled a step of this instance, whether every
    \* step list it processed had at most one step in progress, the runs for
    \* which this instance processed a response that was not running, and the
    \* runs whose completion was delivered
    ev, toggled, wellFormed, termRuns, delivered,
    \* GraphVisualization state (useState) of the mounted instance, and the
    \* last camera move it asked for
    selectedNode, isSheetOpen, camera,
    chatMessages, chatInput, isChatLoading,
    isEmailDialogOpen, emailStep, generatedEmail, isSendingEmail,
    \* requests of the mounted GraphVisualization in flight (chat, draft,
    \* send) and its pending 300 ms timers
    pendingChats, pendingDrafts, pendingSends, resetTimers

indexVars == <<searchStarted, isSearching, isComplete, query, graphData, runId,
               reasoningSteps, cvFile, cvId, isUploadingCV, hasCvLoaded,
               userName, maxNodes>>
formVars == <<userName, maxNodes>>
callVars == <<pendingNames, pendingUploads, pendingUser, startArgs>>
mockVars == <<now, mockRuns, snapshot>>
envVars == <<pendingStarts, pendingPast, nextRun>>
consoleVars == <<steps, expandedSteps, lastActiveStepId, isAutoExpanded,
                 pollingInterval, toggled, wellFormed, termRuns>>
asyncVars == <<armed, inflight, timers>>
panelVars == <<selectedNode, isSheetOpen, camera>>
chatVars == <<chatMessages, chatInput, isChatLoading, pendingChats>>
emailVars == <<isEmailDialogOpen, emailStep, generatedEmail, isSendingEmail,
               pendingDrafts, pendingSends, resetTimers>>
graphVars == <<panelVars, chatVars, emailVars>>
vars == <<indexVars, envVars, callVars, toast, mockVars, consoleVars,
          asyncVars, ev, delivered, graphVars>>

\* ------------------------------------------------------------ helpers
BagCount(b) == BagCardinality(b)
BagAdd(b, x) == b (+) SetToBag({x})
BagDel(b, x) == b (-) SetToBag({x})
Dead(x) == [x EXCEPT !.inst = "dead"]
\* Every entry of a live instance becomes an entry of an unmounted one.
MarkDead(b) == BagOfAll(Dead, b)

\* Index.tsx 698-707: the console is rendered in the reasoning view, when a
\* run id is known.
Mounted == searchStarted /\ ~isComplete /\ runId # Null

\* ReasoningConsole.tsx 33: response.steps.find(s => s.status === "in_progress"),
\* as the step id found, or Null.
ActiveStep(l) ==
    IF \E i \in DOMAIN l : l[i] = "in_progress"
    THEN CHOOSE i \in DOMAIN l :
            /\ l[i] = "in_progress"
            /\ \A j \in DOMAIN l : l[j] = "in_progress" => i <= j
    ELSE Null

\* The invariant of a well-formed run: at most one step is in progress.
AtMostOneActive(l) ==
    \A i, j \in DOMAIN l :
        l[i] = "in_progress" /\ l[j] = "in_progress" => i = j

\* AutoExpand adding the new active step to the expanded set instead of
\* replacing the set.
AutoExpandKeepsOthers(l, exp, last, auto) ==
    LET activeStep == ActiveStep(l) IN
    IF activeStep # Null
    THEN IF activeStep # last
         THEN [expanded |-> exp \cup {activeStep}, last |-> activeStep,
               auto |-> TRUE]
         ELSE [expanded |-> exp, last |-> last, auto |-> auto]
    ELSE IF auto
         THEN [expanded |-> {}, last |-> last, auto |-> FALSE]
         ELSE [expanded |-> exp, last |-> last, auto |-> auto]

\* AutoExpand collapsing whenever no step is active, whatever the auto flag.
AutoExpandAlwaysCollapses(l, exp, last, auto) ==
    LET activeStep == ActiveStep(l) IN
    IF activeStep # Null
    THEN IF activeStep # last
         THEN [expanded |-> {activeStep}, last |-> activeStep, auto |-> TRUE]
         ELSE [expanded |-> exp, last |-> last, auto |-> auto]
    ELSE [expanded |-> {}, last |-> last, auto |-> FALSE]

\* ReasoningConsole.tsx 32-46: the auto-expand logic of one response, from the
\* response's steps and the current expanded set and refs.
AutoExpand(l, exp, last, auto) ==
    LET activeStep == ActiveStep(l) IN
    IF activeStep # Null
    THEN IF activeStep # last
         THEN [expanded |-> {activeStep}, last |-> activeStep, auto |-> TRUE]
         ELSE [expanded |-> exp, last |-> last, auto |-> auto]
    ELSE IF auto
         THEN [expanded |-> {}, last |-> last, auto |-> FALSE]
         ELSE [expanded |-> exp, last |-> last, auto |-> auto]

\* ReasoningConsole.tsx 78-90: toggleExpand's new set.
ToggleSet(exp, stepId) ==
    IF stepId \in exp THEN exp \ {stepId} ELSE exp \cup {stepId}

\* clearInterval(id): timer ids are global to the page.
ClearInterval(a, id) == {i \in a : i.id # id}

\* A cleanup that leaves the interval armed.
EffectCleanupKeeps(a) == a

\* ReasoningConsole.tsx 66-68: the effect's cleanup.
EffectCleanup(a) ==
    IF pollingInterval # Null THEN ClearInterval(a, pollingInterval) ELSE a

\* A timer id no armed interval holds.
FreshId(a) == CHOOSE i \in IntervalIds :
                 /\ \A x \in a : x.id # i
                 /\ \A j \in IntervalIds : (\A x \in a : x.id # j) => i <= j

\* ReasoningConsole.tsx 60-64: the effect body for runId r, on the intervals a
\* and fetches fl left by the cleanup: poll() once, then arm the interval.
EffectRun(a, fl, r) ==
    /\ BagCount(fl) < MaxInFlight
    /\ \E i \in IntervalIds : \A x \in a : x.id # i
    /\ inflight' = BagAdd(fl, [run |-> r, inst |-> "live"])
    /\ armed' = a \cup {[id |-> FreshId(a), run |-> r, inst |-> "live"]}
    /\ pollingInterval' = FreshId(a)

\* ReasoningConsole.tsx 14-20: the state of a new instance.
FreshConsole ==
    /\ steps' = << >>
    /\ expandedSteps' = {}
    /\ lastActiveStepId' = Null
    /\ isAutoExpanded' = FALSE
    /\ toggled' = FALSE
    /\ wellFormed' = TRUE
    /\ termRuns' = {}

MountedNext == searchStarted' /\ ~isComplete' /\ runId' # Null

\* Index.tsx 594, 652, 678-680: GraphVisualization is mounted in the graph
\* view when there is graph data.
GraphShown == searchStarted /\ isComplete /\ graphData # Null
GraphShownNext == searchStarted' /\ isComplete' /\ graphData' # Null

\* GraphVisualization.tsx 22-41: the state of a new instance, with the camera
\* move cam.
FreshGraph(cam) ==
    /\ selectedNode' = Null
    /\ isSheetOpen' = FALSE
    /\ camera' = cam
    /\ chatMessages' = << >>
    /\ chatInput' = ""
    /\ isChatLoading' = FALSE
    /\ isEmailDialogOpen' = FALSE
    /\ emailStep' = "selection"
    /\ generatedEmail' = NoDraft
    /\ isSendingEmail' = FALSE
    /\ pendingChats' = EmptyBag
    /\ pendingDrafts' = EmptyBag
    /\ pendingSends' = EmptyBag
    /\ resetTimers' = 0

\* The part of a render of Index that mounts or unmounts GraphVisualization.
\* A new instance runs the reset-view effect (GraphVisualization.tsx 247-257)
\* with the panel closed.  The requests and timers of an instance that is
\* unmounted are dropped: their continuations only set state of that
\* instance, which does nothing.
GraphRender ==
    IF GraphShownNext
    THEN IF GraphShown THEN UNCHANGED graphVars ELSE FreshGraph(Overview)
    ELSE IF GraphShown THEN FreshGraph(NoCamera) ELSE UNCHANGED graphVars

\* The render that follows a state change of Index (Index.tsx 698-707) and the
\* effects it runs (ReasoningConsole.tsx 23-69).  handleDiscoveryComplete is a
\* new function in every render of Index, so the polling effect of a console
\* that stays mounted is cleaned up and run again.
Reconcile ==
    /\ IF MountedNext
       THEN IF Mounted
            THEN /\ EffectRun(EffectCleanup(armed), inflight, runId')
                 /\ UNCHANGED <<steps, expandedSteps, lastActiveStepId,
                                isAutoExpanded, toggled, wellFormed,
                                termRuns, timers>>
            ELSE /\ FreshConsole
                 /\ EffectRun(armed, inflight, runId')
                 /\ UNCHANGED timers
       ELSE IF Mounted
            THEN /\ FreshConsole
                 /\ armed' = EffectCleanup(armed)
                 /\ pollingInterval' = Null
                 /\ inflight' = MarkDead(inflight)
                 /\ timers' = MarkDead(timers)
            ELSE UNCHANGED <<consoleVars, asyncVars>>
    /\ GraphRender

Event(k) == [kind |-> k, run |-> Null, inst |-> "live"]

\* ---------------------------------------------------------------- Init
\* startArgs before the first start-run call.
NoArgs == [query |-> "", maxNodes |-> 0, cvId |-> Null]
\* snapshot before the first answer of the mock status service.
NoSnapshot == [run |-> Null, status |-> "running", progress |-> 0,
               steps |-> << >>, graph |-> FALSE]

\* Index.tsx 383-417: the page after its first render, with the profile
\* request of the mount effect in flight.
Init ==
    /\ searchStarted = FALSE
    /\ isSearching = FALSE
    /\ isComplete = FALSE
    /\ query = ""
    /\ graphData = Null
    /\ runId = Null
    /\ reasoningSteps = << >>
    /\ cvFile = "none"
    /\ cvId = Null
    /\ isUploadingCV = FALSE
    /\ hasCvLoaded = FALSE
    /\ userName = ""
    /\ maxNodes = <<"2", "0">>
    /\ pendingStarts = 0
    /\ pendingPast = 0
    /\ nextRun = 1
    /\ pendingNames = EmptyBag
    /\ pendingUploads = 0
    /\ pendingUser = TRUE
    /\ startArgs = NoArgs
    /\ toast = "none"
    /\ now = 0
    /\ mockRuns = [r \in {} |-> 0]
    /\ snapshot = NoSnapshot
    /\ steps = << >>
    /\ expandedSteps = {}
    /\ lastActiveStepId = Null
    /\ isAutoExpanded = FALSE
    /\ pollingInterval = Null
    /\ toggled = FALSE
    /\ wellFormed = TRUE
    /\ termRuns = {}
    /\ armed = {}
    /\ inflight = EmptyBag
    /\ timers = EmptyBag
    /\ ev = Event("init")
    /\ delivered = {}
    /\ selectedNode = Null
    /\ isSheetOpen = FALSE
    /\ camera = NoCamera
    /\ chatMessages = << >>
    /\ chatInput = ""
    /\ isChatLoading = FALSE
    /\ isEmailDialogOpen = FALSE
    /\ emailStep = "selection"
    /\ generatedEmail = NoDraft
    /\ isSendingEmail = FALSE
    /\ pendingChats = EmptyBag
    /\ pendingDrafts = EmptyBag
    /\ pendingSends = EmptyBag
    /\ resetTimers = 0

\* ------------------------------------------------------- Index actions
\* Index.tsx 401-410: the profile request answers; a name that is not empty
\* and the has_cv flag are taken over.  Index renders again when a state
\* changed.
UserDataResolve(name, hasCv) ==
    /\ pendingUser
    /\ pendingUser' = FALSE
    /\ userName' = IF name # "" THEN name ELSE userName
    /\ hasCvLoaded' = IF hasCv THEN TRUE ELSE hasCvLoaded
    /\ cvFile' = IF hasCv THEN "file" ELSE cvFile
    /\ ev' = Event("profile")
    /\ UNCHANGED <<searchStarted, isSearching, isComplete, query, graphData,
                   runId, reasoningSteps, cvId, isUploadingCV, maxNodes,
                   envVars, pendingNames, pendingUploads, startArgs, toast,
                   mockVars, delivered>>
    /\ IF hasCv \/ userName' # userName
       THEN Reconcile
       ELSE UNCHANGED <<consoleVars, asyncVars, graphVars>>

\* Index.tsx 411-413: the profile request fails; the error is logged.
UserDataReject ==
    /\ pendingUser
    /\ pendingUser' = FALSE
    /\ ev' = Event("profileFailed")
    /\ UNCHANGED <<indexVars, envVars, pendingNames, pendingUploads, startArgs,
                   toast, mockVars, graphVars,
                   consoleVars, asyncVars, delivered>>

\* Index.tsx 612-615: typing in the query field of the search screen.
TypeQuery(q) ==
    /\ ~searchStarted
    /\ q # query
    /\ query' = q
    /\ ev' = Event("type")
    /\ UNCHANGED <<searchStarted, isSearching, isComplete, graphData, runId,
                   reasoningSteps, cvFile, cvId, isUploadingCV, hasCvLoaded,
                   formVars, envVars, callVars, toast, mockVars, graphVars,
                   consoleVars, asyncVars, delivered>>

\* Index.tsx 518, 531-538: typing in the name field of the header's context
\* panel.
TypeName(n) ==
    /\ ~isComplete /\ ~searchStarted
    /\ n # userName
    /\ userName' = n
    /\ ev' = Event("name")
    /\ UNCHANGED <<searchStarted, isSearching, isComplete, query, graphData,
                   runId, reasoningSteps, cvFile, cvId, isUploadingCV,
                   hasCvLoaded, maxNodes, envVars, callVars, toast, mockVars, graphVars,
                   consoleVars, asyncVars, delivered>>

\* Index.tsx 626-635: choosing a value of the max-nodes select of the search
\* screen.
SetMaxNodes(m) ==
    /\ ~searchStarted
    /\ m # maxNodes
    /\ maxNodes' = m
    /\ ev' = Event("maxNodes")
    /\ UNCHANGED <<searchStarted, isSearching, isComplete, query, graphData,
                   runId, reasoningSteps, cvFile, cvId, isUploadingCV,
                   hasCvLoaded, userName, envVars, callVars, toast, mockVars, graphVars,
                   consoleVars, asyncVars, delivered>>

\* Index.tsx 463: startAgentRun(query, parseInt(maxNodes), cvId || undefined)
\* with the values of the closure c.
StartCall(c) ==
    /\ pendingStarts' = pendingStarts + 1
    /\ startArgs' = [query |-> c.query, maxNodes |-> ParseInt(c.maxNodes),
                     cvId |-> c.cvId]

\* handleStartDiscovery without the test of the query.
handleStartDiscoveryAnyQuery ==
    /\ ~searchStarted
    /\ pendingStarts + BagCount(pendingNames) < MaxStarts
    /\ searchStarted' = TRUE
    /\ isSearching' = TRUE
    /\ isComplete' = FALSE
    /\ graphData' = Null
    /\ LET c == [query |-> query, maxNodes |-> maxNodes, cvId |-> cvId] IN
       IF Trim(userName) # ""
       THEN /\ pendingNames' = BagAdd(pendingNames, c)
            /\ UNCHANGED <<pendingStarts, startArgs>>
       ELSE /\ StartCall(c)
            /\ UNCHANGED pendingNames
    /\ ev' = Event("submit")
    /\ UNCHANGED <<query, runId, reasoningSteps, cvFile, cvId,
                   isUploadingCV, hasCvLoaded, formVars, pendingPast,
                   nextRun, pendingUploads, pendingUser, toast>>
    /\ Reconcile
    /\ UNCHANGED <<mockVars, delivered>>

\* Index.tsx 449-463, 616, 640: handleStartDiscovery (the button, or Enter in
\* the query field) up to its first await: the name save when the trimmed name
\* is not empty, else the start-run call.
handleStartDiscovery ==
    /\ ~searchStarted
    /\ IF Trim(query) = ""
       THEN /\ ev' = Event("submitEmpty")
            /\ UNCHANGED <<indexVars, envVars, callVars, toast, consoleVars,
                           asyncVars, graphVars>>
       ELSE /\ pendingStarts + BagCount(pendingNames) < MaxStarts
            /\ searchStarted' = TRUE
            /\ isSearching' = TRUE
            /\ isComplete' = FALSE
            /\ graphData' = Null
            /\ LET c == [query |-> query, maxNodes |-> maxNodes,
                         cvId |-> cvId] IN
               IF Trim(userName) # ""
               THEN /\ pendingNames' = BagAdd(pendingNames, c)
                    /\ UNCHANGED <<pendingStarts, startArgs>>
               ELSE /\ StartCall(c)
                    /\ UNCHANGED pendingNames
            /\ ev' = Event("submit")
            /\ UNCHANGED <<query, runId, reasoningSteps, cvFile, cvId,
                           isUploadingCV, hasCvLoaded, formVars, pendingPast,
                           nextRun, pendingUploads, pendingUser, toast>>
            /\ Reconcile
    /\ UNCHANGED <<mockVars, delivered>>

\* Index.tsx 460-463: the name save of the submission with closure c answers
\* and the handler goes on to the start-run call.
NameResolve(c) ==
    /\ BagIn(c, pendingNames)
    /\ pendingNames' = BagDel(pendingNames, c)
    /\ StartCall(c)
    /\ ev' = Event("nameSaved")
    /\ UNCHANGED <<indexVars, pendingPast, nextRun, pendingUploads,
                   pendingUser, toast, mockVars, graphVars,
                   consoleVars, asyncVars,
                   delivered>>

\* The catch of handleStartDiscovery (Index.tsx 465-474), as the new values.
StartFailed ==
    /\ toast' = "Error"
    /\ searchStarted' = FALSE
    /\ isSearching' = FALSE

\* Index.tsx 460, 465-474: the name save of the submission with closure c
\* fails: the await throws into the catch and no start-run call is made.
NameReject(c) ==
    /\ BagIn(c, pendingNames)
    /\ pendingNames' = BagDel(pendingNames, c)
    /\ StartFailed
    /\ ev' = Event("nameFailed")
    /\ UNCHANGED <<isComplete, query, graphData, runId, reasoningSteps, cvFile,
                   cvId, isUploadingCV, hasCvLoaded, formVars, envVars,
                   pendingUploads, pendingUser, startArgs, mockVars,
                   delivered>>
    /\ Reconcile

\* Index.tsx 463-464: the start-run request answers with a new run id.
StartResolve ==
    /\ pendingStarts > 0
    /\ nextRun <= MaxRuns
    /\ pendingStarts' = pendingStarts - 1
    /\ runId' = nextRun
    /\ nextRun' = nextRun + 1
    /\ ev' = [kind |-> "started", run |-> nextRun, inst |-> "live"]
    /\ UNCHANGED <<searchStarted, isSearching, isComplete, query, graphData,
                   reasoningSteps, cvFile, cvId, isUploadingCV, hasCvLoaded,
                   formVars, pendingPast, callVars, toast, mockVars,
                   delivered>>
    /\ Reconcile

\* Index.tsx 463, 465-474: the start-run request fails.
StartReject ==
    /\ pendingStarts > 0
    /\ pendingStarts' = pendingStarts - 1
    /\ StartFailed
    /\ ev' = Event("startFailed")
    /\ UNCHANGED <<isComplete, query, graphData, runId, reasoningSteps, cvFile,
                   cvId, isUploadingCV, hasCvLoaded, formVars, pendingPast,
                   nextRun, callVars, mockVars, delivered>>
    /\ Reconcile

\* handleReset without the reset of runId.
handleResetKeepsRun ==
    /\ searchStarted /\ isComplete
    /\ searchStarted' = FALSE
    /\ isSearching' = FALSE
    /\ isComplete' = FALSE
    /\ query' = ""
    /\ graphData' = Null
    /\ reasoningSteps' = << >>
    /\ ev' = Event("reset")
    /\ UNCHANGED <<runId, cvFile, cvId, isUploadingCV, hasCvLoaded, formVars,
                   envVars, callVars, toast, mockVars, delivered>>
    /\ Reconcile

\* Index.tsx 477-485: handleReset, the "New Search" button of the graph view
\* (Index.tsx 652-673).
handleReset ==
    /\ searchStarted /\ isComplete
    /\ searchStarted' = FALSE
    /\ isSearching' = FALSE
    /\ isComplete' = FALSE
    /\ query' = ""
    /\ graphData' = Null
    /\ runId' = Null
    /\ reasoningSteps' = << >>
    /\ ev' = Event("reset")
    /\ UNCHANGED <<cvFile, cvId, isUploadingCV, hasCvLoaded, formVars, envVars,
                   callVars, toast, mockVars, delivered>>
    /\ Reconcile

\* handleDiscoveryComplete without the switch to the graph view.
handleDiscoveryCompleteNoView(data, l) ==
    /\ isSearching' = FALSE
    /\ graphData' = data
    /\ reasoningSteps' = l
    /\ isComplete' = isComplete

\* Index.tsx 487-492: handleDiscoveryComplete(data, steps), as the new values.
handleDiscoveryComplete(data, l) ==
    /\ isSearching' = FALSE
    /\ graphData' = data
    /\ reasoningSteps' = l
    /\ isComplete' = TRUE

\* Index.tsx 494-496, PastRunsSidebar.tsx 93-96: a click on a past run of the
\* sidebar (shown while not in the graph view, Index.tsx 514).
handlePastRunClick ==
    /\ ~isComplete
    /\ pendingPast < MaxPast
    /\ pendingPast' = pendingPast + 1
    /\ ev' = Event("pastClick")
    /\ UNCHANGED <<indexVars, pendingStarts, nextRun, callVars, toast,
                   mockVars, graphVars,
                   consoleVars, asyncVars, delivered>>

\* PastResolve without the switch to the graph view.
PastResolveNoView ==
    /\ pendingPast > 0
    /\ pendingPast' = pendingPast - 1
    /\ query' = PastQuery
    /\ graphData' = PastRun
    /\ searchStarted' = TRUE
    /\ ev' = Event("pastLoaded")
    /\ UNCHANGED <<isSearching, isComplete, runId, reasoningSteps, cvFile, cvId,
                   isUploadingCV, hasCvLoaded, formVars, pendingStarts,
                   nextRun, callVars, toast, mockVars, delivered>>
    /\ Reconcile

\* Index.tsx 497-500: the past run is loaded.
PastResolve ==
    /\ pendingPast > 0
    /\ pendingPast' = pendingPast - 1
    /\ query' = PastQuery
    /\ graphData' = PastRun
    /\ isComplete' = TRUE
    /\ searchStarted' = TRUE
    /\ ev' = Event("pastLoaded")
    /\ UNCHANGED <<isSearching, runId, reasoningSteps, cvFile, cvId,
                   isUploadingCV, hasCvLoaded, formVars, pendingStarts,
                   nextRun, callVars, toast, mockVars, delivered>>
    /\ Reconcile

\* Index.tsx 501-508: loading the past run fails.
PastReject ==
    /\ pendingPast > 0
    /\ pendingPast' = pendingPast - 1
    /\ toast' = "Error"
    /\ ev' = Event("pastFailed")
    /\ UNCHANGED <<indexVars, pendingStarts, nextRun, callVars, mockVars, graphVars,
                   consoleVars, asyncVars, delivered>>

\* Index.tsx 419-427: handleFileUpload up to the upload request; the file
\* input is in the header's context panel (Index.tsx 518, 531, 570-576) and is
\* disabled while isUploadingCV.
handleFileUpload ==
    /\ ~isComplete /\ ~searchStarted
    /\ ~isUploadingCV
    /\ cvFile' = "file"
    /\ isUploadingCV' = TRUE
    /\ pendingUploads' = pendingUploads + 1
    /\ ev' = Event("upload")
    /\ UNCHANGED <<searchStarted, isSearching, isComplete, query, graphData,
                   runId, reasoningSteps, cvId, hasCvLoaded, formVars, envVars,
                   pendingNames, pendingUser, startArgs, toast, mockVars,
                   delivered>>
    /\ Reconcile

\* Index.tsx 428-433, 443-445: the upload succeeds.
UploadResolve(c) ==
    /\ pendingUploads > 0
    /\ pendingUploads' = pendingUploads - 1
    /\ cvId' = c
    /\ hasCvLoaded' = TRUE
    /\ toast' = "CV Uploaded"
    /\ isUploadingCV' = FALSE
    /\ ev' = [kind |-> "uploaded", run |-> c, inst |-> "live"]
    /\ UNCHANGED <<searchStarted, isSearching, isComplete, query, graphData,
                   runId, reasoningSteps, cvFile, formVars, envVars,
                   pendingNames, pendingUser, startArgs, mockVars, delivered>>
    /\ Reconcile

\* UploadReject without the finally block: the uploading flag stays set.
UploadRejectNoFinally ==
    /\ pendingUploads > 0
    /\ pendingUploads' = pendingUploads - 1
    /\ toast' = "Upload Failed"
    /\ cvFile' = "none"
    /\ hasCvLoaded' = FALSE
    /\ isUploadingCV' = isUploadingCV
    /\ ev' = Event("uploadFailed")
    /\ UNCHANGED <<searchStarted, isSearching, isComplete, query, graphData,
                   runId, reasoningSteps, cvId, formVars, envVars,
                   pendingNames, pendingUser, startArgs, mockVars, delivered>>
    /\ Reconcile

\* Index.tsx 434-445: the upload fails.
UploadReject ==
    /\ pendingUploads > 0
    /\ pendingUploads' = pendingUploads - 1
    /\ toast' = "Upload Failed"
    /\ cvFile' = "none"
    /\ hasCvLoaded' = FALSE
    /\ isUploadingCV' = FALSE
    /\ ev' = Event("uploadFailed")
    /\ UNCHANGED <<searchStarted, isSearching, isComplete, query, graphData,
                   runId, reasoningSteps, cvId, formVars, envVars,
                   pendingNames, pendingUser, startArgs, mockVars, delivered>>
    /\ Reconcile

\* ------------------------------------------- ReasoningConsole actions
\* ReasoningConsole.tsx 64, 24-26: an armed interval fires and poll() issues
\* the status fetch for the runId of its closure.
Tick(i) ==
    /\ i \in armed
    /\ BagCount(inflight) < MaxInFlight
    /\ inflight' = BagAdd(inflight, [run |-> i.run, inst |-> i.inst])
    /\ ev' = [kind |-> "tick", run |-> i.run, inst |-> i.inst]
    /\ UNCHANGED <<indexVars, envVars, callVars, toast, mockVars, graphVars,
                   consoleVars,
                   armed, timers, delivered>>

\* ReasoningConsole.tsx 48-54: the completed branch of poll for a response to
\* fetch f, on an instance that is still mounted: clear the interval the ref
\* holds and start the grace timer.
CompletedLive(f, resp) ==
    /\ BagCount(timers) < MaxTimers
    /\ armed' = EffectCleanup(armed)
    /\ timers' = BagAdd(timers, [run |-> f.run, steps |-> resp.steps,
                                 inst |-> "live"])

\* ReasoningConsole.tsx 26-54: poll's continuation when the fetch f resolves
\* with resp.  The state setters of an unmounted instance do nothing, its refs
\* are its own, and the interval its ref names was cleared when it unmounted;
\* its grace timer is started all the same.
PollResolve(f, resp) ==
    /\ BagIn(f, inflight)
    /\ inflight' = BagDel(inflight, f)
    /\ ev' = [kind |-> "resolve", run |-> f.run, inst |-> f.inst]
    /\ IF f.inst = "live"
       THEN LET x == AutoExpand(resp.steps, expandedSteps, lastActiveStepId,
                                isAutoExpanded) IN
            /\ steps' = resp.steps
            /\ expandedSteps' = x.expanded
            /\ lastActiveStepId' = x.last
            /\ isAutoExpanded' = x.auto
            /\ termRuns' = IF resp.status # "running"
                           THEN termRuns \cup {f.run} ELSE termRuns
            /\ IF resp.status = "completed" /\ resp.graph
               THEN CompletedLive(f, resp)
               ELSE UNCHANGED <<armed, timers>>
            /\ wellFormed' = (wellFormed /\ AtMostOneActive(resp.steps))
            /\ UNCHANGED <<pollingInterval, toggled>>
       ELSE /\ IF resp.status = "completed" /\ resp.graph
               THEN /\ BagCount(timers) < MaxTimers
                    /\ timers' = BagAdd(timers, [run |-> f.run,
                                    steps |-> resp.steps, inst |-> "dead"])
               ELSE UNCHANGED timers
            /\ UNCHANGED <<consoleVars, armed>>
    /\ UNCHANGED <<indexVars, envVars, callVars, toast, mockVars, graphVars,
                   delivered>>

\* PollReject with the catch stopping the loop: the interval is cleared.
PollRejectStops(f) ==
    /\ BagIn(f, inflight)
    /\ inflight' = BagDel(inflight, f)
    /\ ev' = [kind |-> "reject", run |-> f.run, inst |-> f.inst]
    /\ armed' = IF f.inst = "live" THEN EffectCleanup(armed) ELSE armed
    /\ UNCHANGED <<indexVars, envVars, callVars, toast, mockVars, graphVars,
                   consoleVars,
                   timers, delivered>>

\* ReasoningConsole.tsx 55-57: the fetch f rejects; the error is logged.
PollReject(f) ==
    /\ BagIn(f, inflight)
    /\ inflight' = BagDel(inflight, f)
    /\ ev' = [kind |-> "reject", run |-> f.run, inst |-> f.inst]
    /\ UNCHANGED <<indexVars, envVars, callVars, toast, mockVars, graphVars,
                   consoleVars,
                   armed, timers, delivered>>

\* toggleExpand without the reset of the auto flag.
toggleExpandKeepsAuto(stepId) ==
    /\ Mounted
    /\ stepId \in DOMAIN steps
    /\ steps[stepId] = "done"
    /\ expandedSteps' = ToggleSet(expandedSteps, stepId)
    /\ toggled' = TRUE
    /\ ev' = Event("toggle")
    /\ UNCHANGED <<indexVars, envVars, callVars, toast, mockVars, graphVars,
                   steps,
                   lastActiveStepId, isAutoExpanded, pollingInterval,
                   wellFormed, termRuns, asyncVars, delivered>>

\* ReasoningConsole.tsx 78-90, 140: the user clicks the header of a step shown
\* as done.
toggleExpand(stepId) ==
    /\ Mounted
    /\ stepId \in DOMAIN steps
    /\ steps[stepId] = "done"
    /\ isAutoExpanded' = FALSE
    /\ expandedSteps' = ToggleSet(expandedSteps, stepId)
    /\ toggled' = TRUE
    /\ ev' = Event("toggle")
    /\ UNCHANGED <<indexVars, envVars, callVars, toast, mockVars, graphVars,
                   steps,
                   lastActiveStepId, pollingInterval, wellFormed, termRuns,
                   asyncVars, delivered>>

\* ReasoningConsole.tsx 51-53, Index.tsx 487-492: the grace timer t fires and
\* calls onComplete.
GraceTimerFire(t) ==
    /\ BagIn(t, timers)
    /\ handleDiscoveryComplete(t.run, t.steps)
    /\ delivered' = delivered \cup {t.run}
    /\ ev' = [kind |-> "deliver", run |-> t.run, inst |-> t.inst]
    /\ UNCHANGED <<searchStarted, query, runId, cvFile, cvId, isUploadingCV,
                   hasCvLoaded, formVars, envVars, callVars, toast, mockVars>>
    /\ IF Mounted
       THEN /\ FreshConsole
            /\ armed' = EffectCleanup(armed)
            /\ pollingInterval' = Null
            /\ inflight' = MarkDead(inflight)
            /\ timers' = MarkDead(BagDel(timers, t))
       ELSE /\ timers' = BagDel(timers, t)
            /\ UNCHANGED <<consoleVars, armed, inflight>>
    /\ GraphRender

\* ------------------------------------------- GraphVisualization actions
\* What a step of GraphVisualization leaves alone: its state changes do not
\* render Index.
IndexUnchanged ==
    UNCHANGED <<indexVars, envVars, callVars, toast, mockVars, consoleVars,
                asyncVars, delivered>>

\* GraphVisualization.tsx 51-55: the reset-chat effect, which runs after a
\* render in which selectedNode changed.
ResetChat ==
    /\ chatMessages' = << >>
    /\ chatInput' = ""

\* handleNodeClick without the test for the user's anchor node.
handleNodeClickAnyNode(n) ==
    /\ GraphShown
    /\ ev' = [kind |-> "nodeClick", run |-> n, inst |-> "live"]
    /\ selectedNode' = n
    /\ isSheetOpen' = TRUE
    /\ camera' = Towards(n)
    /\ IF n # selectedNode
       THEN ResetChat
       ELSE UNCHANGED <<chatMessages, chatInput>>
    /\ UNCHANGED <<isChatLoading, pendingChats, emailVars>>
    /\ IndexUnchanged

\* GraphVisualization.tsx 228-245, 51-55: a click on node n of the 3D view.
\* The anchor is left alone; any other node is selected, the panel opens, the
\* camera is sent towards the node, and the chat is reset when the selection
\* changed.  (Whether the open panel covers the 3D view is decided by the
\* Sheet component; a click is taken to be possible at any time.)
handleNodeClick(n) ==
    /\ GraphShown
    /\ ev' = [kind |-> "nodeClick", run |-> n, inst |-> "live"]
    /\ IF n = UserNode
       THEN UNCHANGED graphVars
       ELSE /\ selectedNode' = n
            /\ isSheetOpen' = TRUE
            /\ camera' = Towards(n)
            /\ IF n # selectedNode
               THEN ResetChat
               ELSE UNCHANGED <<chatMessages, chatInput>>
            /\ UNCHANGED <<isChatLoading, pendingChats, emailVars>>
    /\ IndexUnchanged

\* GraphVisualization.tsx 364, 247-257: the panel is closed (onOpenChange)
\* and the reset-view effect sends the camera back to the overview.
CloseSheet ==
    /\ isSheetOpen
    /\ isSheetOpen' = FALSE
    /\ camera' = Overview
    /\ ev' = Event("closeSheet")
    /\ UNCHANGED <<selectedNode, chatVars, emailVars>>
    /\ IndexUnchanged

\* GraphVisualization.tsx 569-578: typing in the chat field of the panel.
TypeChat(t) ==
    /\ isSheetOpen
    /\ t # chatInput
    /\ chatInput' = t
    /\ ev' = Event("typeChat")
    /\ UNCHANGED <<panelVars, chatMessages, isChatLoading, pendingChats,
                   emailVars>>
    /\ IndexUnchanged

\* GraphVisualization.tsx 97-111, 575, 579-582: handleSendMessage up to the
\* request, by Enter in the chat field (at any time) or by the Send button
\* (enabled when the field is not blank and no answer is awaited).
handleSendMessage ==
    /\ isSheetOpen
    /\ IF Trim(chatInput) # "" /\ selectedNode # Null
       THEN /\ Len(chatMessages) + BagCount(pendingChats) + 2 <= MaxChat
            /\ chatMessages' = Append(chatMessages,
                                 [role |-> "user", node |-> selectedNode])
            /\ chatInput' = ""
            /\ isChatLoading' = TRUE
            /\ pendingChats' = BagAdd(pendingChats, [node |-> selectedNode])
            /\ ev' = [kind |-> "chatSend", run |-> selectedNode,
                      inst |-> "live"]
       ELSE /\ ev' = Event("chatEmpty")
            /\ UNCHANGED chatVars
    /\ UNCHANGED <<panelVars, emailVars>>
    /\ IndexUnchanged

\* GraphVisualization.tsx 111-112, 115-117: the chat request r answers; the
\* answer is appended and the loading flag is cleared.
ChatResolve(r) ==
    /\ BagIn(r, pendingChats)
    /\ pendingChats' = BagDel(pendingChats, r)
    /\ chatMessages' = Append(chatMessages, [role |-> "bot", node |-> r.node])
    /\ isChatLoading' = FALSE
    /\ ev' = [kind |-> "chatAnswer", run |-> r.node, inst |-> "live"]
    /\ UNCHANGED <<panelVars, chatInput, emailVars>>
    /\ IndexUnchanged

\* GraphVisualization.tsx 113-117: the chat request r fails; the error is
\* logged and the loading flag is cleared.
ChatReject(r) ==
    /\ BagIn(r, pendingChats)
    /\ pendingChats' = BagDel(pendingChats, r)
    /\ isChatLoading' = FALSE
    /\ ev' = [kind |-> "chatFailed", run |-> r.node, inst |-> "live"]
    /\ UNCHANGED <<panelVars, chatMessages, chatInput, emailVars>>
    /\ IndexUnchanged

\* GraphVisualization.tsx 506-513: the "Drop an email" button of the panel.
OpenEmailDialog ==
    /\ isSheetOpen
    /\ selectedNode # Null
    /\ ~isEmailDialogOpen
    /\ isEmailDialogOpen' = TRUE
    /\ ev' = Event("openEmail")
    /\ UNCHANGED <<panelVars, chatVars, emailStep, generatedEmail,
                   isSendingEmail, pendingDrafts, pendingSends, resetTimers>>
    /\ IndexUnchanged

\* GraphVisualization.tsx 644: the email dialog is dismissed (onOpenChange).
CloseEmailDialog ==
    /\ isEmailDialogOpen
    /\ isEmailDialogOpen' = FALSE
    /\ ev' = Event("closeEmail")
    /\ UNCHANGED <<panelVars, chatVars, emailStep, generatedEmail,
                   isSendingEmail, pendingDrafts, pendingSends, resetTimers>>
    /\ IndexUnchanged

\* GraphVisualization.tsx 120-124, 656-675: one of the two intent buttons of
\* the selection step: handleGenerateEmail up to the request.
handleGenerateEmail(type) ==
    /\ isEmailDialogOpen
    /\ emailStep = "selection"
    /\ IF selectedNode # Null
       THEN /\ BagCount(pendingDrafts) < MaxSends
            /\ emailStep' = "generating"
            /\ pendingDrafts' = BagAdd(pendingDrafts,
                                  [node |-> selectedNode, intent |-> type])
            /\ ev' = [kind |-> "generate", run |-> selectedNode,
                      inst |-> "live"]
       ELSE /\ ev' = Event("generateNoNode")
            /\ UNCHANGED <<emailStep, pendingDrafts>>
    /\ UNCHANGED <<panelVars, chatVars, isEmailDialogOpen, generatedEmail,
                   isSendingEmail, pendingSends, resetTimers>>
    /\ IndexUnchanged

\* DraftResolve entering the editing step without the text of the answer.
DraftResolveKeepsText(r) ==
    /\ BagIn(r, pendingDrafts)
    /\ pendingDrafts' = BagDel(pendingDrafts, r)
    /\ emailStep' = "editing"
    /\ ev' = [kind |-> "drafted", run |-> r.node, inst |-> "live"]
    /\ UNCHANGED <<panelVars, chatVars, isEmailDialogOpen, generatedEmail,
                   isSendingEmail, pendingSends, resetTimers>>
    /\ IndexUnchanged

\* GraphVisualization.tsx 124-126: the draft request r answers: its text
\* becomes the draft and the dialog goes to the editing step.
DraftResolve(r) ==
    /\ BagIn(r, pendingDrafts)
    /\ pendingDrafts' = BagDel(pendingDrafts, r)
    /\ generatedEmail' = [node |-> r.node, intent |-> r.intent,
                          edited |-> FALSE]
    /\ emailStep' = "editing"
    /\ ev' = [kind |-> "drafted", run |-> r.node, inst |-> "live"]
    /\ UNCHANGED <<panelVars, chatVars, isEmailDialogOpen, isSendingEmail,
                   pendingSends, resetTimers>>
    /\ IndexUnchanged

\* GraphVisualization.tsx 127-130: the draft request r fails: back to the
\* selection step.
DraftReject(r) ==
    /\ BagIn(r, pendingDrafts)
    /\ pendingDrafts' = BagDel(pendingDrafts, r)
    /\ emailStep' = "selection"
    /\ ev' = [kind |-> "draftFailed", run |-> r.node, inst |-> "live"]
    /\ UNCHANGED <<panelVars, chatVars, isEmailDialogOpen, generatedEmail,
                   isSendingEmail, pendingSends, resetTimers>>
    /\ IndexUnchanged

\* GraphVisualization.tsx 688-693: the user edits the draft in the text area
\* of the editing step.
EditDraft ==
    /\ isEmailDialogOpen
    /\ emailStep = "editing"
    /\ ~generatedEmail.edited
    /\ generatedEmail' = [generatedEmail EXCEPT !.edited = TRUE]
    /\ ev' = Event("editDraft")
    /\ UNCHANGED <<panelVars, chatVars, isEmailDialogOpen, emailStep,
                   isSendingEmail, pendingDrafts, pendingSends, resetTimers>>
    /\ IndexUnchanged

\* GraphVisualization.tsx 133-136, 700-702: the Send Email button of the
\* editing step (disabled while isSendingEmail): handleSendEmail up to the
\* request, which carries the draft.
handleSendEmail ==
    /\ isEmailDialogOpen
    /\ emailStep = "editing"
    /\ ~isSendingEmail
    /\ BagCount(pendingSends) < MaxSends
    /\ isSendingEmail' = TRUE
    /\ pendingSends' = BagAdd(pendingSends, generatedEmail)
    /\ ev' = Event("send")
    /\ UNCHANGED <<panelVars, chatVars, isEmailDialogOpen, emailStep,
                   generatedEmail, pendingDrafts, resetTimers>>
    /\ IndexUnchanged

\* GraphVisualization.tsx 136-143: the send request d answers: the dialog is
\* closed and the 300 ms reset timer is started.
SendResolve(d) ==
    /\ BagIn(d, pendingSends)
    /\ pendingSends' = BagDel(pendingSends, d)
    /\ isEmailDialogOpen' = FALSE
    /\ resetTimers' = resetTimers + 1
    /\ ev' = Event("sent")
    /\ UNCHANGED <<panelVars, chatVars, emailStep, generatedEmail,
                   isSendingEmail, pendingDrafts>>
    /\ IndexUnchanged

\* GraphVisualization.tsx 144-147: the send request d fails: the sending flag
\* is cleared.
SendReject(d) ==
    /\ BagIn(d, pendingSends)
    /\ pendingSends' = BagDel(pendingSends, d)
    /\ isSendingEmail' = FALSE
    /\ ev' = Event("sendFailed")
    /\ UNCHANGED <<panelVars, chatVars, isEmailDialogOpen, emailStep,
                   generatedEmail, pendingDrafts, resetTimers>>
    /\ IndexUnchanged

\* GraphVisualization.tsx 139-143: the reset timer fires.
ResetTimerFire ==
    /\ resetTimers > 0
    /\ resetTimers' = resetTimers - 1
    /\ emailStep' = "selection"
    /\ generatedEmail' = NoDraft
    /\ isSendingEmail' = FALSE
    /\ ev' = Event("emailReset")
    /\ UNCHANGED <<panelVars, chatVars, isEmailDialogOpen, pendingDrafts,
                   pendingSends>>
    /\ IndexUnchanged

\* ------------------------------------------------ mock status service
\* api.ts 223-283: baseSteps, the six steps of the mock, all pending.
baseSteps == [i \in 1..6 |-> "pending"]

\* A map that marks the step in progress and leaves the steps before it as
\* they were.
MapStepsSkipsDone(done, active) ==
    [i \in DOMAIN baseSteps |->
        IF i = active THEN "in_progress" ELSE baseSteps[i]]

\* api.ts 303-306, 310-314, ...: currentSteps.map marking the steps of done as
\* done and the step active as in progress.
MapSteps(done, active) ==
    [i \in DOMAIN baseSteps |->
        IF i \in done THEN "done"
        ELSE IF i = active THEN "in_progress"
        ELSE baseSteps[i]]

\* api.ts 296-346: steps, status and progress by the milliseconds elapsed
\* since the run was first asked for.
MockAnswer(elapsed) ==
    IF elapsed < 2000
    THEN [steps |-> MapSteps({}, 1), status |-> "running", progress |-> 10]
    ELSE IF elapsed < 3000
    THEN [steps |-> MapSteps({1, 2}, 3), status |-> "running",
          progress |-> 30]
    ELSE IF elapsed < 5000
    THEN [steps |-> MapSteps({1, 2, 3}, 4), status |-> "running",
          progress |-> 50]
    ELSE IF elapsed < 7000
    THEN [steps |-> MapSteps({1, 2, 3, 4}, 5), status |-> "running",
          progress |-> 70]
    ELSE IF elapsed < 9000
    THEN [steps |-> MapSteps({1, 2, 3, 4, 5}, 6), status |-> "running",
          progress |-> 90]
    ELSE [steps |-> MapSteps(DOMAIN baseSteps, Null), status |-> "completed",
          progress |-> 100]

\* api.ts 288-358: getAgentStatus(r) at the time now (whole seconds: the
\* answer changes only at whole seconds of elapsed time).
getAgentStatus(r) ==
    /\ mockRuns' = IF r \in DOMAIN mockRuns THEN mockRuns
                   ELSE mockRuns @@ (r :> now)
    /\ LET a == MockAnswer(1000 * (now - mockRuns'[r])) IN
       snapshot' = [run |-> r, status |-> a.status, progress |-> a.progress,
                    steps |-> a.steps, graph |-> (a.status = "completed")]
    /\ ev' = [kind |-> "status", run |-> r, inst |-> "live"]
    /\ UNCHANGED <<now, indexVars, envVars, callVars, toast, consoleVars,
                   asyncVars, delivered,
                   graphVars>>

\* Date.now() moves on by a second.
AdvanceClock ==
    /\ now < MaxClock
    /\ now' = now + 1
    /\ ev' = Event("clock")
    /\ UNCHANGED <<mockRuns, snapshot, indexVars, envVars, callVars, toast,
                   consoleVars, asyncVars, delivered,
                   graphVars>>

\* ---------------------------------------------------------------- Next
Next ==
    \/ \E q \in Queries : TypeQuery(q)
    \/ handleStartDiscovery
    \/ StartResolve
    \/ StartReject
    \/ handleReset
    \/ handlePastRunClick
    \/ PastResolve
    \/ PastReject
    \/ \E i \in armed : Tick(i)
    \/ \E f \in FetchRecs, resp \in FlowResponses : PollResolve(f, resp)
    \/ \E f \in FetchRecs : PollReject(f)
    \/ \E t \in TimerRecs : GraceTimerFire(t)

Spec == Init /\ [][Next]_vars

\* The flow with the CV upload of the search screen.
NextAll ==
    \/ Next
    \/ handleFileUpload
    \/ \E c \in CvIds : UploadResolve(c)
    \/ UploadReject

SpecAll == Init /\ [][NextAll]_vars

\* The mock status service asked for its runs as time passes.
NextMock ==
    \/ \E r \in Runs : getAgentStatus(r)
    \/ AdvanceClock

SpecMock == Init /\ [][NextMock]_vars

\* The search screen and the submission: the form, the CV upload, the profile
\* request, and a submission up to the answer of its start-run call.
NextSubmit ==
    \/ \E n \in Names, h \in BOOLEAN : UserDataResolve(n, h)
    \/ UserDataReject
    \/ \E q \in Queries : TypeQuery(q)
    \/ \E n \in Names : TypeName(n)
    \/ \E m \in MaxNodesOptions : SetMaxNodes(m)
    \/ handleFileUpload
    \/ \E c \in CvIds : UploadResolve(c)
    \/ UploadReject
    \/ handleStartDiscovery
    \/ \E c \in Closures : NameResolve(c)
    \/ \E c \in Closures : NameReject(c)
    \/ StartResolve
    \/ StartReject

SpecSubmit == Init /\ [][NextSubmit]_vars

\* Runs from the submission to New Search: a run is polled until it answers
\* completed, its completion is delivered, and New Search starts over.
NextRuns ==
    \/ \E q \in Queries : TypeQuery(q)
    \/ handleStartDiscovery
    \/ StartResolve
    \/ StartReject
    \/ \E i \in armed : Tick(i)
    \/ \E f \in FetchRecs, resp \in FlowResponses : PollResolve(f, resp)
    \/ \E t \in TimerRecs : GraceTimerFire(t)
    \/ handleReset

SpecRuns == Init /\ [][NextRuns]_vars

\* The polling effect over the life of consoles: a run is started while a CV
\* upload is in flight, the upload's end renders Index again, the fetch each
\* run of the effect issues is answered, a completion is delivered, and New
\* Search starts over while the answer of an earlier start-run call may still
\* arrive.  The interval is armed and cleared but does not fire here; it
\* fires under Spec, SpecRuns and SpecConsole.
PollerResponses ==
    {[status |-> "running", steps |-> <<"in_progress">>, graph |-> FALSE],
     [status |-> "completed", steps |-> <<"done">>, graph |-> TRUE]}
NextPoller ==
    \/ \E q \in Queries : TypeQuery(q)
    \/ handleFileUpload
    \/ \E c \in CvIds : UploadResolve(c)
    \/ handleStartDiscovery
    \/ StartResolve
    \/ \E f \in FetchRecs, resp \in PollerResponses : PollResolve(f, resp)
    \/ \E t \in TimerRecs : GraceTimerFire(t)
    \/ handleReset

SpecPoller == Init /\ [][NextPoller]_vars

\* The past run of the sidebar, opened at any point of a submission, and New
\* Search; the status fetches of a mounted console stay in flight.
NextPast ==
    \/ \E q \in Queries : TypeQuery(q)
    \/ handleStartDiscovery
    \/ StartResolve
    \/ StartReject
    \/ handlePastRunClick
    \/ PastResolve
    \/ PastReject
    \/ handleReset

SpecPast == Init /\ [][NextPast]_vars

\* The graph view of a past run: nodes are clicked, the detail panel is
\* closed, the chat of the panel is used, and New Search leaves the view.
ChatRecs == [node : People]
NextPanel ==
    \/ handlePastRunClick
    \/ PastResolve
    \/ handleReset
    \/ \E n \in NodeIds : handleNodeClick(n)
    \/ CloseSheet
    \/ \E t \in ChatInputs : TypeChat(t)
    \/ handleSendMessage
    \/ \E r \in ChatRecs : ChatResolve(r)
    \/ \E r \in ChatRecs : ChatReject(r)

SpecPanel == Init /\ [][NextPanel]_vars

\* The graph view of a past run with the email dialog of the detail panel.
DraftRecs == [node : People, intent : Intents]
NextEmail ==
    \/ handlePastRunClick
    \/ PastResolve
    \/ handleReset
    \/ \E n \in NodeIds : handleNodeClick(n)
    \/ CloseSheet
    \/ OpenEmailDialog
    \/ CloseEmailDialog
    \/ \E type \in Intents : handleGenerateEmail(type)
    \/ \E r \in DraftRecs : DraftResolve(r)
    \/ \E r \in DraftRecs : DraftReject(r)
    \/ EditDraft
    \/ handleSendEmail
    \/ \E d \in Drafts : SendResolve(d)
    \/ \E d \in Drafts : SendReject(d)
    \/ ResetTimerFire

SpecEmail == Init /\ [][NextEmail]_vars

\* ------------------------------------------------- the console alone
\* The state after choosing a CV file, typing a query, submitting it and
\* receiving run id 1, with the upload still in flight: the console has just
\* been mounted, its first fetch is in flight and its interval is armed.
InitConsole ==
    /\ searchStarted = TRUE
    /\ isSearching = TRUE
    /\ isComplete = FALSE
    /\ query = "q"
    /\ graphData = Null
    /\ runId = 1
    /\ reasoningSteps = << >>
    /\ cvFile = "file"
    /\ cvId = Null
    /\ isUploadingCV = TRUE
    /\ hasCvLoaded = FALSE
    /\ userName = ""
    /\ maxNodes = <<"2", "0">>
    /\ pendingStarts = 0
    /\ pendingPast = 0
    /\ nextRun = 2
    /\ pendingNames = EmptyBag
    /\ pendingUploads = 1
    /\ pendingUser = TRUE
    /\ startArgs = [query |-> "q", maxNodes |-> 20, cvId |-> Null]
    /\ toast = "none"
    /\ now = 0
    /\ mockRuns = [r \in {} |-> 0]
    /\ snapshot = NoSnapshot
    /\ steps = << >>
    /\ expandedSteps = {}
    /\ lastActiveStepId = Null
    /\ isAutoExpanded = FALSE
    /\ pollingInterval = 1
    /\ toggled = FALSE
    /\ wellFormed = TRUE
    /\ termRuns = {}
    /\ armed = {[id |-> 1, run |-> 1, inst |-> "live"]}
    /\ inflight = SetToBag({[run |-> 1, inst |-> "live"]})
    /\ timers = EmptyBag
    /\ ev = [kind |-> "started", run |-> 1, inst |-> "live"]
    /\ delivered = {}
    /\ selectedNode = Null
    /\ isSheetOpen = FALSE
    /\ camera = NoCamera
    /\ chatMessages = << >>
    /\ chatInput = ""
    /\ isChatLoading = FALSE
    /\ isEmailDialogOpen = FALSE
    /\ emailStep = "selection"
    /\ generatedEmail = NoDraft
    /\ isSendingEmail = FALSE
    /\ pendingChats = EmptyBag
    /\ pendingDrafts = EmptyBag
    /\ pendingSends = EmptyBag
    /\ resetTimers = 0

\* The console of one run until its completion is delivered, while the upload
\* started on the search screen ends.
NextConsole ==
    \/ \E i \in armed : Tick(i)
    \/ \E f \in FetchRecs, resp \in ConsoleResponses : PollResolve(f, resp)
    \/ \E f \in FetchRecs : PollReject(f)
    \/ \E t \in TimerRecs : GraceTimerFire(t)
    \/ \E c \in CvIds : UploadResolve(c)
    \/ UploadReject

SpecConsole == InitConsole /\ [][NextConsole]_vars

\* The console of a run that has not completed, with every step list the
\* backend may send and the user toggling steps.
NextExpand ==
    \/ \E i \in armed : Tick(i)
    \/ \E f \in FetchRecs, resp \in RunningResponses : PollResolve(f, resp)
    \/ \E f \in FetchRecs : PollReject(f)
    \/ \E s \in StepIds : toggleExpand(s)

SpecExpand == InitConsole /\ [][NextExpand]_vars

\* The console of one run when status fetches keep being issued (the interval
\* fires) and answered, the backend eventually answers completed with the
\* graph, and timers fire.
LiveCompleted ==
    \E f \in FetchRecs, resp \in ConsoleResponses :
        /\ f.inst = "live"
        /\ resp.status = "completed" /\ resp.graph
        /\ PollResolve(f, resp)
Answered ==
    \E f \in FetchRecs :
        \/ \E resp \in ConsoleResponses : PollResolve(f, resp)
        \/ PollReject(f)
SpecLive ==
    /\ InitConsole
    /\ [][NextConsole]_vars
    /\ WF_vars(\E i \in armed : Tick(i))
    /\ WF_vars(Answered)
    /\ SF_vars(LiveCompleted)
    /\ WF_vars(\E t \in TimerRecs : GraceTimerFire(t))

\* Violated under SpecAll: InitConsole is a state of the whole flow.
InitConsoleUnreached ==
    ~(/\ searchStarted /\ isSearching /\ ~isComplete /\ query = "q"
      /\ graphData = Null /\ reasoningSteps = << >>
      /\ runId = 1 /\ nextRun = 2 /\ pendingStarts = 0 /\ pendingPast = 0
      /\ cvFile = "file" /\ isUploadingCV /\ cvId = Null /\ ~hasCvLoaded
      /\ userName = "" /\ maxNodes = <<"2", "0">> /\ pendingNames = EmptyBag
      /\ pendingUploads = 1 /\ pendingUser /\ toast = "none"
      /\ startArgs = [query |-> "q", maxNodes |-> 20, cvId |-> Null]
      /\ steps = << >> /\ expandedSteps = {} /\ lastActiveStepId = Null
      /\ ~isAutoExpanded /\ pollingInterval = 1
      /\ ~toggled /\ wellFormed /\ termRuns = {} /\ delivered = {}
      /\ armed = {[id |-> 1, run |-> 1, inst |-> "live"]}
      /\ inflight = SetToBag({[run |-> 1, inst |-> "live"]})
      /\ timers = EmptyBag
      /\ ev = [kind |-> "started", run |-> 1, inst |-> "live"])

\* -------------------------------------------------------------- claims
LiveFetch(r) == [run |-> r, inst |-> "live"]
\* The runs whose completed response the mounted instance has processed: its
\* grace timers (the first to fire unmounts it).
DoneRuns == {t.run : t \in {x \in BagToSet(timers) : x.inst = "live"}}
\* The expanded set that shows exactly the step in progress of the list l.
ActiveSet(l) == IF ActiveStep(l) # Null THEN {ActiveStep(l)} ELSE {}
LiveResolve == ev'.kind = "resolve" /\ ev'.inst = "live"

\* C1: the completion of a run is delivered (onComplete is called) at most
\* once: no delivery is made for a run whose completion was delivered before.
C1_DeliveredOnce ==
    [][ev'.kind = "deliver" => ev'.run \notin delivered]_vars

\* C2: once the poller of a fetch or grace timer has been cancelled (its
\* instance was unmounted, or runId changed since it was issued), its grace
\* timer delivers nothing and its response changes neither steps nor the
\* expanded set.
C2_NothingAfterCancel ==
    [][/\ ev'.kind = "deliver" => (ev'.inst = "live" /\ ev'.run = runId)
       /\ (ev'.kind = "resolve" /\ (ev'.inst = "dead" \/ ev'.run # runId))
            => UNCHANGED <<steps, expandedSteps>>]_vars

\* C3: nothing of an earlier run bleeds into a later one: while the console
\* polls runId, a response or delivery of another run changes nothing shown,
\* remembered or armed and delivers nothing, and a change of runId starts from
\* the state of a new console.
C3_NoCrossRunBleed ==
    [][Mounted =>
        /\ (ev'.kind = "resolve" /\ ev'.run # runId)
             => UNCHANGED <<steps, expandedSteps, lastActiveStepId,
                            isAutoExpanded, armed>>
        /\ (ev'.kind = "deliver" /\ ev'.run # runId)
             => UNCHANGED <<graphData, reasoningSteps, isComplete>>
        /\ (MountedNext /\ runId' # runId)
             => /\ steps' = << >> /\ expandedSteps' = {}
                /\ lastActiveStepId' = Null /\ ~isAutoExpanded']_vars

\* C4: after the mounted console processed a completed response with graph
\* data for a run, no status fetch is issued for that run and no interval is
\* armed for it, until the console is unmounted.
C4_NoFetchAfterCompleted ==
    [][\A r \in DoneRuns' :
        /\ \A i \in armed' : ~(i.inst = "live" /\ i.run = r)
        /\ r \in DoneRuns =>
             CopiesIn(LiveFetch(r), inflight') <= CopiesIn(LiveFetch(r), inflight)
      ]_vars

\* C5: after the mounted console processed a response whose status is not
\* running (completed or failed) for a run, no further status fetch is issued
\* for that run.
C5_StopsAtTerminal ==
    [][\A r \in termRuns :
        CopiesIn(LiveFetch(r), inflight') <= CopiesIn(LiveFetch(r), inflight)
      ]_vars

\* C6: a status fetch that rejects changes nothing but the fetch being over:
\* steps, the expanded set, lastActiveStepId, the auto flag and the state of
\* Index are unchanged, nothing is delivered and no grace timer is started,
\* and the armed interval stays armed, so its next tick issues a new fetch.
C6_RejectChangesNothing ==
    [][ev'.kind = "reject" =>
        UNCHANGED <<steps, expandedSteps, lastActiveStepId, isAutoExpanded,
                    pollingInterval, armed, timers, delivered, indexVars>>]_vars
\* A live fetch was rejected after a response had been shown, and the interval
\* is still armed.
C6_Witness ==
    /\ ev.kind = "reject" /\ ev.inst = "live"
    /\ steps # << >>
    /\ \E i \in armed : i.inst = "live" /\ i.run = runId

\* C7: after every processed response, when every step list so far had at most
\* one step in progress and the user toggled nothing, the expanded set is
\* exactly the step in progress, or empty when there is none.
C7_ExpandedIsActive ==
    (ev.kind = "resolve" /\ ev.inst = "live" /\ wellFormed /\ ~toggled)
        => expandedSteps = ActiveSet(steps)

\* C8: a response whose step in progress differs from the last auto-expanded
\* one makes the expanded set exactly that step, remembers it and sets the auto
\* flag; when it is the same step, the expanded set and the auto flag are
\* unchanged.
C8_NewActiveStep ==
    [][(LiveResolve /\ ActiveStep(steps') # Null) =>
        IF ActiveStep(steps') # lastActiveStepId
        THEN /\ expandedSteps' = {ActiveStep(steps')}
             /\ lastActiveStepId' = ActiveStep(steps')
             /\ isAutoExpanded'
        ELSE UNCHANGED <<expandedSteps, lastActiveStepId, isAutoExpanded>>]_vars
\* After a manual toggle, a response with a new step in progress left exactly
\* that step expanded.
C8_Witness ==
    /\ ev.kind = "resolve" /\ ev.inst = "live"
    /\ toggled /\ isAutoExpanded
    /\ ActiveStep(steps) # Null
    /\ expandedSteps = {ActiveStep(steps)}
    /\ \E s \in DOMAIN steps : s # ActiveStep(steps) /\ steps[s] = "done"

\* C9: a response without a step in progress empties the expanded set and
\* clears the auto flag when the auto flag is set, and leaves the expanded set
\* unchanged when it is not.
C9_NoActiveStep ==
    [][(LiveResolve /\ ActiveStep(steps') = Null) =>
        IF isAutoExpanded
        THEN expandedSteps' = {} /\ ~isAutoExpanded'
        ELSE UNCHANGED <<expandedSteps, isAutoExpanded>>]_vars
\* Without any toggle, a step was auto-expanded and a later response without a
\* step in progress collapsed it.
C9_Witness ==
    /\ ev.kind = "resolve" /\ ev.inst = "live"
    /\ ~toggled
    /\ lastActiveStepId # Null
    /\ ActiveStep(steps) = Null
    /\ expandedSteps = {} /\ ~isAutoExpanded

\* C10: a manual toggle flips the membership of exactly one step and clears
\* the auto flag; while the auto flag is clear, a response changes the expanded
\* set only when it reports a step in progress that differs from the last
\* auto-expanded one, and nothing but a toggle or a response changes it.
C10_ManualToggle ==
    [][/\ ev'.kind = "toggle" =>
            /\ ~isAutoExpanded'
            /\ \E s \in StepIds :
                 /\ (s \in expandedSteps') = (s \notin expandedSteps)
                 /\ expandedSteps' \ {s} = expandedSteps \ {s}
       /\ (LiveResolve /\ ~isAutoExpanded
             /\ ActiveStep(steps') \in {Null, lastActiveStepId})
            => UNCHANGED <<expandedSteps, isAutoExpanded>>
       /\ (Mounted /\ MountedNext /\ ev'.kind \notin {"toggle", "resolve"})
            => UNCHANGED <<expandedSteps, isAutoExpanded>>]_vars
\* After a manual toggle expanded a step, a response without a step in
\* progress left it expanded.
C10_Witness ==
    /\ ev.kind = "resolve" /\ ev.inst = "live"
    /\ toggled /\ ~isAutoExpanded
    /\ lastActiveStepId # Null
    /\ ActiveStep(steps) = Null
    /\ expandedSteps # {}

C12_StartFailureToIdle ==
    [][ev'.kind = "startFailed" =>
        /\ ~searchStarted' /\ ~isSearching' /\ ~isComplete'
        /\ toast' = "Error"
        /\ runId' = runId]_vars

\* C13: when a start-run call returns a run id, the reasoning view is shown
\* afterwards (searchStarted, not isComplete) with runId the returned id and
\* exactly one polling interval armed, for that id; and an interval is armed
\* only while searchStarted, not isComplete and runId is not null.
C13_RunIdStartsPoller ==
    [][/\ ev'.kind = "started" =>
            /\ searchStarted' /\ ~isComplete'
            /\ runId' = ev'.run
            /\ armed' = {[id |-> pollingInterval', run |-> ev'.run,
                          inst |-> "live"]}
       /\ armed' # {} => MountedNext]_vars

\* C14: when status fetches keep being issued and answered, the backend
\* eventually answers completed with the graph and the user does nothing, a
\* run whose console is mounted is eventually complete for good: isComplete is
\* true, isSearching false and graphData the run's graph, whatever fetches
\* failed before.
C14_EventuallyComplete ==
    Mounted ~> [](isComplete /\ ~isSearching /\ graphData = runId)
\* The run's completion has been delivered.
C14_Witness ==
    /\ ev.kind = "deliver" /\ ev.inst = "live"
    /\ delivered = {runId}
    /\ isComplete /\ ~isSearching /\ graphData = runId /\ reasoningSteps # << >>

\* C15: right after New Search searchStarted, isSearching and isComplete are
\* false, query is empty, graphData and runId are null and reasoningSteps is
\* empty.
C15_ResetToIdle ==
    [][ev'.kind = "reset" =>
        /\ ~searchStarted' /\ ~isSearching' /\ ~isComplete'
        /\ query' = "" /\ graphData' = Null /\ runId' = Null
        /\ reasoningSteps' = << >>]_vars
\* New Search was pressed in the graph view of a run that had been delivered.
C15_Witness ==
    /\ ev.kind = "reset"
    /\ delivered # {} /\ nextRun > 1
    /\ runId = Null /\ graphData = Null /\ reasoningSteps = << >> /\ query = ""

\* C16: when the fetch of a past run succeeds, searchStarted and isComplete
\* are true afterwards, query is the past run's query and graphData its stored
\* graph, no polling interval is armed and no status fetch was issued; when it
\* fails, no state of Index changes and the "Error" notification is shown.
C16_PastRunShortCircuit ==
    [][/\ ev'.kind = "pastLoaded" =>
            /\ searchStarted' /\ isComplete'
            /\ query' = PastQuery /\ graphData' = PastRun
            /\ armed' = {}
            /\ BagCount(inflight') = BagCount(inflight)
            /\ \A f \in FetchRecs :
                 f.inst = "live" => CopiesIn(f, inflight') = 0
       /\ ev'.kind = "pastFailed" =>
            /\ UNCHANGED indexVars
            /\ toast' = "Error"]_vars
\* The past run was loaded while the console of a run was mounted and polling.
C16_Witness ==
    /\ ev.kind = "pastLoaded"
    /\ runId # Null /\ isSearching
    /\ searchStarted /\ isComplete /\ graphData = PastRun /\ query = PastQuery
    /\ armed = {} /\ inflight # EmptyBag

\* C17: every start-run call receives the query, parseInt of the max-nodes
\* value selected and, as cv_id, the cvId the page holds when the call is made
\* (the id of the last successful upload, or none).
C17_StartArgs ==
    [][pendingStarts' > pendingStarts =>
        startArgs' = [query |-> query, maxNodes |-> ParseInt(maxNodes),
                      cvId |-> cvId]]_vars

\* C18: the name save is fire-and-forget: the submission issues the start-run
\* call at once, with the name save pending, and a name save that fails
\* issues nothing more and leaves the flow where it is.
C18_FireAndForget ==
    [][/\ ev'.kind = "submit" => pendingStarts' = pendingStarts + 1
       /\ ev'.kind = "nameFailed" =>
            UNCHANGED <<searchStarted, isSearching, toast>>]_vars

\* C19: choosing a file sets isUploadingCV with one upload in flight, and no
\* second upload is started meanwhile; the answer of the upload clears
\* isUploadingCV and changes none of searchStarted, isSearching, isComplete,
\* runId, graphData; a failure clears cvFile and hasCvLoaded and shows the
\* "Upload Failed" notification, a success sets cvId to the returned id and
\* hasCvLoaded.
C19_UploadOutcome ==
    [][/\ pendingUploads' <= 1
       /\ ev'.kind = "upload" => isUploadingCV' /\ pendingUploads' = 1
       /\ ev'.kind \in {"uploaded", "uploadFailed"} =>
            /\ ~isUploadingCV' /\ pendingUploads' = 0
            /\ UNCHANGED <<searchStarted, isSearching, isComplete, runId,
                           graphData>>
       /\ ev'.kind = "uploadFailed" =>
            cvFile' = "none" /\ ~hasCvLoaded' /\ toast' = "Upload Failed"
       /\ ev'.kind = "uploaded" =>
            cvId' = ev'.run /\ hasCvLoaded' /\ toast' = "CV Uploaded"]_vars
\* A second upload failed, after the first had succeeded, while a submission
\* was awaiting its run.
C19_Witness ==
    /\ ev.kind = "uploadFailed"
    /\ cvId # Null /\ cvFile = "none" /\ ~hasCvLoaded /\ ~isUploadingCV
    /\ searchStarted /\ isSearching

\* The number of steps of l that are done.
DoneCount(l) == Cardinality({i \in DOMAIN l : l[i] = "done"})
\* n / d rounded to the nearest integer, halves up (Math.round), for n >= 0
\* and d > 0.
RoundDiv(n, d) == (2 * n + d) \div (2 * d)

\* C20: every snapshot getAgentStatus returned has a progress within 0..100
\* that is 100 * (steps done) / (steps), rounded to the nearest integer.
C20_ProgressIsDoneShare ==
    snapshot.run # Null =>
        /\ snapshot.progress \in 0..100
        /\ snapshot.progress =
             RoundDiv(100 * DoneCount(snapshot.steps), Len(snapshot.steps))

\* The steps of l that are in progress.
InProgress(l) == {i \in DOMAIN l : l[i] = "in_progress"}

\* C21: in every snapshot getAgentStatus returned at most one step is in
\* progress, every step before it is done and every step after it is pending.
C21_OneStepInProgress ==
    snapshot.run # Null =>
        /\ Cardinality(InProgress(snapshot.steps)) <= 1
        /\ \A i \in InProgress(snapshot.steps) :
              \A j \in DOMAIN snapshot.steps :
                 /\ j < i => snapshot.steps[j] = "done"
                 /\ j > i => snapshot.steps[j] = "pending"

\* A snapshot with done steps before the step in progress and pending steps
\* after it.
C21_Witness ==
    /\ snapshot.run # Null
    /\ InProgress(snapshot.steps) = {3}
    /\ snapshot.steps[2] = "done"
    /\ snapshot.steps[4] = "pending"

\* C26: the view flags of Index agree in every reachable state: isComplete
\* implies searchStarted, and isComplete and isSearching are never both true.
C26_ViewFlagsConsistent ==
    /\ isComplete => searchStarted
    /\ ~(isComplete /\ isSearching)

\* C25: a mounted console polls the run returned for the most recent
\* submission.  A submission has no run until its start-run call is answered,
\* so right after a submission no console is mounted, and the answer of a
\* start-run call that mounts a console makes it poll the run of that answer.
C25_PollsLatestSubmission ==
    [][/\ ev'.kind = "submit" => ~MountedNext
       /\ (ev'.kind = "started" /\ MountedNext) => runId' = ev'.run]_vars

\* C28: in every reachable state a stored CV id comes with the indicator of a
\* loaded CV: cvId non-null implies hasCvLoaded.
C28_CvIdImpliesLoaded == cvId # Null => hasCvLoaded

\* C27: at every moment at most one polling interval is armed, whatever the
\* number of times the polling effect has run again, and none is armed while
\* no console is mounted.
C27_OneIntervalArmed ==
    /\ Cardinality(armed) <= 1
    /\ armed # {} => Mounted

\* The polling effect has run again on a console that stays mounted (its
\* fetch joins the one of the earlier run of the effect) and one interval is
\* armed.
C27_Witness ==
    /\ Mounted
    /\ Cardinality(armed) = 1
    /\ ev.kind \in {"uploaded", "started"}
    /\ BagCount(inflight) >= 2

\* C22: a click on the user's anchor node leaves selectedNode, isSheetOpen
\* and the camera as they are; a click on any other node selects it, opens
\* the detail panel and sends the camera towards it; closing the panel sends
\* the camera back to the overview.
C22_NodeClick ==
    [][/\ (ev'.kind = "nodeClick" /\ ev'.run = UserNode) =>
              UNCHANGED <<selectedNode, isSheetOpen, camera>>
       /\ (ev'.kind = "nodeClick" /\ ev'.run # UserNode) =>
              /\ selectedNode' = ev'.run
              /\ isSheetOpen'
              /\ camera' = Towards(ev'.run)
       /\ ev'.kind = "closeSheet" =>
              /\ ~isSheetOpen'
              /\ camera' = Overview]_vars

\* The anchor was clicked after a node was selected and its panel closed:
\* the selection, the closed panel and the overview are as before.
C22_Witness ==
    /\ ev.kind = "nodeClick" /\ ev.run = UserNode
    /\ selectedNode \in People
    /\ ~isSheetOpen
    /\ camera = Overview

\* C23: the chat is scoped to the selected node: at every moment every
\* message of chatMessages, user message or bot answer, belongs to a request
\* made for the node that is selected.
C23_ChatScoped ==
    \A i \in DOMAIN chatMessages : chatMessages[i].node = selectedNode

\* C24: the email dialog goes selection, generating, editing, send.  The
\* generating step is entered from selection only; editing is entered from
\* generating only, by a draft request that answered, and then holds the text
\* of that answer; a draft request that failed leads back to selection; a
\* send starts in editing only and at most one send is in flight; a send that
\* answered closes the dialog and leaves the reset timer pending, with the
\* step and the sending flag kept until the timer sets the step to selection
\* and empties the draft; a send that failed keeps the editing step and the
\* draft.
C24_EmailOrder ==
    [][/\ (emailStep' = "generating" /\ emailStep # "generating") =>
              emailStep = "selection"
       /\ (emailStep' = "editing" /\ emailStep # "editing") =>
              /\ emailStep = "generating"
              /\ ev'.kind = "drafted"
              /\ generatedEmail' \in Drafts
              /\ ~generatedEmail'.edited
              /\ BagIn([node |-> generatedEmail'.node,
                        intent |-> generatedEmail'.intent], pendingDrafts)
       /\ ev'.kind = "draftFailed" => emailStep' = "selection"
       /\ ev'.kind = "send" => emailStep = "editing"
       /\ BagCount(pendingSends') <= 1
       /\ ev'.kind = "sent" =>
              /\ ~isEmailDialogOpen'
              /\ resetTimers' > 0
       /\ resetTimers' > 0 =>
              /\ emailStep' = "editing"
              /\ isSendingEmail'
       /\ ev'.kind = "emailReset" =>
              /\ emailStep' = "selection"
              /\ generatedEmail' = NoDraft
       /\ ev'.kind = "sendFailed" =>
              /\ emailStep = "editing" /\ emailStep' = "editing"
              /\ generatedEmail' = generatedEmail]_vars

\* A draft was generated and sent, the send answered, and the timer has
\* reset the dialog, which is closed.
C24_Witness ==
    /\ ev.kind = "emailReset"
    /\ emailStep = "selection"
    /\ generatedEmail = NoDraft
    /\ ~isSendingEmail
    /\ ~isEmailDialogOpen
    /\ selectedNode \in People

\* C29: isChatLoading is true exactly while a chat request is in flight, and
\* at most one chat request is in flight at a time.
C29_OneChatRequest ==
    /\ isChatLoading <=> BagCount(pendingChats) > 0
    /\ BagCount(pendingChats) <= 1

\* C30: whenever the email dialog shows the editing step, the draft it holds
\* was generated for the node that is selected.
C30_DraftForSelectedNode ==
    (isEmailDialogOpen /\ emailStep = "editing") =>
        generatedEmail.node = selectedNode

=============================================================================
